---- MODULE Spec2Model ----
(***************************************************************************)
(* Answer grading and band-score calculation of the IELTS practice         *)
(* backend: the answer check of the Reading and Listening services and of  *)
(* the question-pack record, the two band tables, and grade_submission     *)
(* over the stored tests, answers and scores; the overall score of the     *)
(* Writing service, the follow-up limit and next-question choice of the    *)
(* Speaking module, and the admin routes that keep the question packs;     *)
(* the pack lookup and the progress report of a submission, the follow-up  *)
(* decision over the responses of a session, and two grade requests in     *)
(* flight at once.                                                         *)
(*                                                                         *)
(* A Python str is a sequence of one-character strings, a list of answers  *)
(* is a sequence of such sequences.  Band scores are kept in tenths        *)
(* (9.0 is 90), percentages as the exact pair correct/total.               *)
(***************************************************************************)
EXTENDS Integers, Sequences, FiniteSets, TLC

VARIABLES
    \* ---- the answer check applied to one input (SpecMatch)
    user_answers,       \* the user_answers argument: [kind, val]
    correct_answers,    \* the correct_answers argument (a list of strings)
    order_matters,      \* the order_matters argument / pack flag
    is_correct,         \* the value the check returned
    mpc,                \* "input", or which check has been applied
    \* ---- calculate_band_score applied to one input (SpecBand)
    n_correct,          \* the correct_answers argument (a count)
    n_total,            \* the total_questions argument
    band_score,         \* the band returned, in tenths
    bpc,                \* "input", or which service's table has been applied
    \* ---- the stored data of one skill (Spec)
    skill,              \* "reading" or "listening": which service and tables
    test,               \* the test: its passages/sections, each a list of packs
    submissions,        \* ids of the Submission rows
    answers,            \* the Answer rows of each submission id
    scores,             \* the Score rows
    grade_response,     \* what the last grade request answered
    save_response,      \* what the last save_answer call answered (SpecService)
    \* ---- WritingService.calculate_score applied to one input (SpecWriting)
    criteria,           \* the four criterion scores, in half bands
    overall_score,      \* the overall score stored, in half bands
    wpc,                \* "input", or which aggregation has run
    \* ---- a speaking topic, its questions and one response (SpecSpeaking)
    topic,              \* the SpeakingTopic row looked up, if there is one
    followup_count,     \* SpeakingResponse.followup_count
    followup_allowed,   \* what can_have_followup returned
    questions,          \* the SpeakingQuestion rows of the topic
    session,            \* the SpeakingSession row looked up, if there is one
    selected,           \* what get_next_question returned
    spc,                \* "input", or which method has been called
    \* ---- the question packs of the passages, as the admin routes keep
    \* ---- them (SpecAdmin)
    question_packs,     \* the ReadingQuestionPack rows
    next_pack_id,       \* the id the next row gets
    admin_response,     \* what the last admin request answered
    \* ---- the read-only queries on a test and a submission (SpecProgress)
    pack_result,        \* what get_question_pack_by_number returned
    progress,           \* what get_user_progress returned
    \* ---- the responses of one speaking session (SpecFollowup)
    responses,          \* the SpeakingResponse rows of the session
    ask_followup,       \* what should_ask_followup returned
    \* ---- two grade requests in flight (SpecPair)
    grading             \* per submission: what its grade request has read

mvars == <<user_answers, correct_answers, order_matters, is_correct, mpc>>
bvars == <<n_correct, n_total, band_score, bpc>>
dvars == <<skill, test, submissions, answers, scores, grade_response>>
wvars == <<criteria, overall_score, wpc>>
kvars == <<topic, followup_count, followup_allowed, questions, session, selected,
          spc>>
avars == <<question_packs, next_pack_id, admin_response>>
qvars == <<pack_result, progress>>
fvars == <<responses, ask_followup>>
yvars == <<qvars, fvars, grading>>
xvars == <<save_response, wvars, kvars, avars, yvars>>
vars == <<mvars, bvars, dvars, xvars>>

\* The variables of a part of the model that a specification does not run.
MatchIdle ==
    /\ user_answers = [kind |-> "list", val |-> <<>>]
    /\ correct_answers = <<>>
    /\ order_matters = TRUE
    /\ is_correct = FALSE
    /\ mpc = "idle"

BandIdle ==
    /\ n_correct = 0
    /\ n_total = 0
    /\ band_score = 0
    /\ bpc = "idle"

DataIdle ==
    /\ skill = "reading"
    /\ test = <<>>
    /\ submissions = {}
    /\ answers = <<>>
    /\ scores = {}
    /\ grade_response = "idle"

WritingIdle ==
    /\ criteria = <<>>
    /\ overall_score = 0
    /\ wpc = "idle"

SpeakingIdle ==
    /\ topic = <<>>
    /\ followup_count = 0
    /\ followup_allowed = FALSE
    /\ questions = <<>>
    /\ session = <<>>
    /\ selected = "idle"
    /\ spc = "idle"

AdminIdle ==
    /\ question_packs = {}
    /\ next_pack_id = 0
    /\ admin_response = "idle"

QueryIdle ==
    /\ pack_result = "idle"
    /\ progress = "idle"

FollowupIdle ==
    /\ responses = <<>>
    /\ ask_followup = "idle"

PairIdle == grading = <<>>

LaterIdle == QueryIdle /\ FollowupIdle /\ PairIdle

ExtraIdle ==
    /\ save_response = "idle"
    /\ WritingIdle
    /\ SpeakingIdle
    /\ AdminIdle
    /\ LaterIdle

\* ------------------------------------------------------------------------
\* Strings
\* ------------------------------------------------------------------------

Range(s) == {s[i] : i \in DOMAIN s}

\* str.lower() on ASCII text: A-Z map to a-z, every other character is kept.
UpperToLower ==
    [c \in {"A", "B", "C", "D", "F", "L", "P"} |->
        CASE c = "A" -> "a" [] c = "B" -> "b" [] c = "C" -> "c"
          [] c = "D" -> "d" [] c = "F" -> "f" [] c = "L" -> "l"
          [] c = "P" -> "p"]

LowerChar(c) == IF c \in DOMAIN UpperToLower THEN UpperToLower[c] ELSE c

lower(s) == [i \in 1..Len(s) |-> LowerChar(s[i])]

IsSpace(c) == c \in {" ", "\t", "\n", "\r"}

RECURSIVE lstrip(_)
lstrip(s) == IF s # <<>> /\ IsSpace(Head(s)) THEN lstrip(Tail(s)) ELSE s

RECURSIVE rstrip(_)
rstrip(s) ==
    IF s # <<>> /\ IsSpace(s[Len(s)]) THEN rstrip(SubSeq(s, 1, Len(s) - 1)) ELSE s

\* str.strip(): leading and trailing whitespace removed, inner kept.
strip(s) == rstrip(lstrip(s))

\* A faulty variant of normalize: the .strip() call forgotten.
normalize_nostrip(ans) == lower(ans)

\* A faulty variant of normalize: the .lower() call forgotten.
normalize_nolower(ans) == strip(ans)

\* str(ans).lower().strip()
normalize(ans) == strip(lower(ans))

\* What "for ans in x" iterates: the elements of a list, the characters of
\* a str.
Iterate(x) ==
    IF x.kind = "str" THEN [i \in 1..Len(x.val) |-> <<x.val[i]>>] ELSE x.val

List(l) == [kind |-> "list", val |-> l]
Str(s) == [kind |-> "str", val |-> s]

\* ------------------------------------------------------------------------
\* The answer check
\* ------------------------------------------------------------------------

\* A faulty variant of the check: the order_matters flag ignored, always strict.
check_answer_correctness_strict(user, correct, om) ==
    LET user_normalized == [i \in 1..Len(Iterate(user)) |-> normalize(Iterate(user)[i])]
        correct_normalized == [i \in 1..Len(correct) |-> normalize(correct[i])]
    IN  user_normalized = correct_normalized

\* ReadingService.check_answer_correctness
check_answer_correctness(user, correct, om) ==
    LET user_normalized == [i \in 1..Len(Iterate(user)) |-> normalize(Iterate(user)[i])]
        correct_normalized == [i \in 1..Len(correct) |-> normalize(correct[i])]
    IN  IF om
        THEN user_normalized = correct_normalized
        ELSE Range(user_normalized) = Range(correct_normalized)

\* ListeningService.check_answer_correctness
Listening_check_answer_correctness(user, correct, om) ==
    LET user_normalized == [i \in 1..Len(Iterate(user)) |-> normalize(Iterate(user)[i])]
        correct_normalized == [i \in 1..Len(correct) |-> normalize(correct[i])]
    IN  IF om
        THEN user_normalized = correct_normalized
        ELSE Range(user_normalized) = Range(correct_normalized)

\* ReadingQuestionPack.check_answer_correctness, given the list that
\* get_correct_answers_for_question returned and the pack's flag.
Pack_check_answer_correctness(user, correct, om) ==
    IF correct = <<>>
    THEN FALSE
    ELSE LET user_list == IF user.kind = "str" THEN <<user.val>> ELSE user.val
             user_normalized == [i \in 1..Len(user_list) |-> normalize(user_list[i])]
             correct_normalized == [i \in 1..Len(correct) |-> normalize(correct[i])]
         IN  IF om
             THEN user_normalized = correct_normalized
             ELSE Range(user_normalized) = Range(correct_normalized)

\* ------------------------------------------------------------------------
\* SpecMatch: the checks applied to every input of a bounded set
\* ------------------------------------------------------------------------

MaxAnswers == 2

Tokens ==
    { <<>>, <<"a">>, <<"A">>, <<" ", "a", " ">>, <<"b">>, <<"B", " ">> }

RECURSIVE ListsUpTo(_)
ListsUpTo(n) ==
    IF n = 0 THEN {<<>>}
    ELSE LET shorter == ListsUpTo(n - 1)
         IN  shorter \cup {Append(l, t) : l \in {x \in shorter : Len(x) = n - 1}, t \in Tokens}

AnswerLists == ListsUpTo(MaxAnswers)

MatchInit ==
    /\ user_answers \in {List(l) : l \in AnswerLists} \cup {Str(t) : t \in Tokens}
    /\ correct_answers \in AnswerLists
    /\ order_matters \in BOOLEAN
    /\ is_correct = FALSE
    /\ mpc = "input"
    /\ BandIdle
    /\ DataIdle
    /\ ExtraIdle

ReadingCheck ==
    /\ mpc = "input"
    /\ is_correct' = check_answer_correctness(user_answers, correct_answers, order_matters)
    /\ mpc' = "reading"
    /\ UNCHANGED <<user_answers, correct_answers, order_matters, bvars, dvars, xvars>>

ListeningCheck ==
    /\ mpc = "input"
    /\ is_correct' = Listening_check_answer_correctness(user_answers, correct_answers, order_matters)
    /\ mpc' = "listening"
    /\ UNCHANGED <<user_answers, correct_answers, order_matters, bvars, dvars, xvars>>

PackCheck ==
    /\ mpc = "input"
    /\ is_correct' = Pack_check_answer_correctness(user_answers, correct_answers, order_matters)
    /\ mpc' = "pack"
    /\ UNCHANGED <<user_answers, correct_answers, order_matters, bvars, dvars, xvars>>

MatchNext == ReadingCheck \/ ListeningCheck \/ PackCheck

SpecMatch == MatchInit /\ [][MatchNext]_vars

\* ------------------------------------------------------------------------
\* Band scores
\* ------------------------------------------------------------------------

\* correct_answers / total_questions >= permille / 1000.  The quotient and
\* the decimal literal are both the doubles nearest to their exact values,
\* and two different ratios here lie far more than a rounding error apart,
\* so the comparison of the doubles is the comparison of the exact ratios.
AtLeast(correct, total, permille) == 1000 * correct >= permille * total

\* A faulty variant of the Reading table: the 0.825 threshold exclusive.
calculate_band_score_exclusive(correct, total) ==
    IF total = 0 THEN 0
    ELSE IF AtLeast(correct, total, 900) THEN 90
    ELSE IF 1000 * correct > 825 * total THEN 85
    ELSE IF AtLeast(correct, total, 750) THEN 80
    ELSE IF AtLeast(correct, total, 675) THEN 75
    ELSE IF AtLeast(correct, total, 600) THEN 70
    ELSE IF AtLeast(correct, total, 525) THEN 65
    ELSE IF AtLeast(correct, total, 450) THEN 60
    ELSE IF AtLeast(correct, total, 375) THEN 55
    ELSE IF AtLeast(correct, total, 300) THEN 50
    ELSE IF AtLeast(correct, total, 225) THEN 45
    ELSE IF AtLeast(correct, total, 150) THEN 40
    ELSE IF AtLeast(correct, total, 75) THEN 35
    ELSE 30

\* A faulty variant of the Reading table: the bands of two neighbouring rows
\* exchanged.
calculate_band_score_swapped(correct, total) ==
    IF total = 0 THEN 0
    ELSE IF AtLeast(correct, total, 900) THEN 90
    ELSE IF AtLeast(correct, total, 825) THEN 85
    ELSE IF AtLeast(correct, total, 750) THEN 80
    ELSE IF AtLeast(correct, total, 675) THEN 75
    ELSE IF AtLeast(correct, total, 600) THEN 65
    ELSE IF AtLeast(correct, total, 525) THEN 70
    ELSE IF AtLeast(correct, total, 450) THEN 60
    ELSE IF AtLeast(correct, total, 375) THEN 55
    ELSE IF AtLeast(correct, total, 300) THEN 50
    ELSE IF AtLeast(correct, total, 225) THEN 45
    ELSE IF AtLeast(correct, total, 150) THEN 40
    ELSE IF AtLeast(correct, total, 75) THEN 35
    ELSE 30

\* A faulty variant of the Reading table: the last branch returning no band.
calculate_band_score_nofloor(correct, total) ==
    IF total = 0 THEN 0
    ELSE IF AtLeast(correct, total, 900) THEN 90
    ELSE IF AtLeast(correct, total, 825) THEN 85
    ELSE IF AtLeast(correct, total, 750) THEN 80
    ELSE IF AtLeast(correct, total, 675) THEN 75
    ELSE IF AtLeast(correct, total, 600) THEN 70
    ELSE IF AtLeast(correct, total, 525) THEN 65
    ELSE IF AtLeast(correct, total, 450) THEN 60
    ELSE IF AtLeast(correct, total, 375) THEN 55
    ELSE IF AtLeast(correct, total, 300) THEN 50
    ELSE IF AtLeast(correct, total, 225) THEN 45
    ELSE IF AtLeast(correct, total, 150) THEN 40
    ELSE IF AtLeast(correct, total, 75) THEN 35
    ELSE 0

\* ReadingService.calculate_band_score
calculate_band_score(correct, total) ==
    IF total = 0 THEN 0
    ELSE IF AtLeast(correct, total, 900) THEN 90
    ELSE IF AtLeast(correct, total, 825) THEN 85
    ELSE IF AtLeast(correct, total, 750) THEN 80
    ELSE IF AtLeast(correct, total, 675) THEN 75
    ELSE IF AtLeast(correct, total, 600) THEN 70
    ELSE IF AtLeast(correct, total, 525) THEN 65
    ELSE IF AtLeast(correct, total, 450) THEN 60
    ELSE IF AtLeast(correct, total, 375) THEN 55
    ELSE IF AtLeast(correct, total, 300) THEN 50
    ELSE IF AtLeast(correct, total, 225) THEN 45
    ELSE IF AtLeast(correct, total, 150) THEN 40
    ELSE IF AtLeast(correct, total, 75) THEN 35
    ELSE 30

\* A faulty variant of the Listening table: the Reading table used in its place.
Listening_calculate_band_score_reading(correct, total) ==
    calculate_band_score(correct, total)

\* ListeningService.calculate_band_score
Listening_calculate_band_score(correct, total) ==
    IF total = 0 THEN 0
    ELSE IF AtLeast(correct, total, 975) THEN 90
    ELSE IF AtLeast(correct, total, 900) THEN 85
    ELSE IF AtLeast(correct, total, 825) THEN 80
    ELSE IF AtLeast(correct, total, 750) THEN 75
    ELSE IF AtLeast(correct, total, 675) THEN 70
    ELSE IF AtLeast(correct, total, 600) THEN 65
    ELSE IF AtLeast(correct, total, 525) THEN 60
    ELSE IF AtLeast(correct, total, 450) THEN 55
    ELSE IF AtLeast(correct, total, 375) THEN 50
    ELSE IF AtLeast(correct, total, 300) THEN 45
    ELSE IF AtLeast(correct, total, 225) THEN 40
    ELSE IF AtLeast(correct, total, 150) THEN 35
    ELSE 30

\* ------------------------------------------------------------------------
\* SpecBand: both tables applied to every count up to MaxTotal
\* ------------------------------------------------------------------------

MaxTotal == 40

BandInit ==
    /\ n_total \in 0..MaxTotal
    /\ n_correct \in 0..n_total
    /\ band_score = 0
    /\ bpc = "input"
    /\ MatchIdle
    /\ DataIdle
    /\ ExtraIdle

ReadingBand ==
    /\ bpc = "input"
    /\ band_score' = calculate_band_score(n_correct, n_total)
    /\ bpc' = "reading"
    /\ UNCHANGED <<n_correct, n_total, mvars, dvars, xvars>>

ListeningBand ==
    /\ bpc = "input"
    /\ band_score' = Listening_calculate_band_score(n_correct, n_total)
    /\ bpc' = "listening"
    /\ UNCHANGED <<n_correct, n_total, mvars, dvars, xvars>>

BandNext == ReadingBand \/ ListeningBand

SpecBand == BandInit /\ [][BandNext]_vars

\* ------------------------------------------------------------------------
\* Stored data: tests, submissions, answers, scores
\* ------------------------------------------------------------------------

\* json.dumps and json.loads: the text of a value, and the value of a text.
json_dumps(value) == [json |-> value]
json_loads(text) == text.json

\* A faulty variant of the lookup: the int q_num used as the key, which no dict
\* read from JSON holds.
DictGet_intkey(dict, key) == List(<<>>)

\* dict.get(key, []): the stored value, whatever JSON value it is, or an
\* empty list.
DictGet(dict, key) == IF key \in DOMAIN dict THEN dict[key] ELSE List(<<>>)

EmptyDict == <<>>

\* A question pack as create_*_question_pack stores it: correct_answers is
\* the JSON text the request carried, stored as it came; the services read
\* it as a dict from question number (as text) to a list of strings.
QuestionPack(qstart, qend, answer_dict, om) ==
    [question_start |-> qstart, question_end |-> qend,
     correct_answers |-> json_dumps(answer_dict), order_matters |-> om]

\* range(question_start, question_end + 1)
QuestionRange(pack) ==
    [i \in 1..(IF pack.question_end >= pack.question_start
               THEN pack.question_end - pack.question_start + 1 ELSE 0)
        |-> pack.question_start + i - 1]

\* A faulty variant of the Answer constraint: no uniqueness declared.
Answer_unique_together_missing(rows, q) == TRUE

\* ReadingAnswer.Meta / ListeningAnswer.Meta: unique_together =
\* [submission, question_number].  A row for question number q can join the
\* Answer rows of a submission only if none of them has that number.
Answer_unique_together(rows, q) == \A a \in rows : a.question_number # q

\* A faulty variant of the Score relation: a plain foreign key.
Score_one_to_one_missing(rows, s) == TRUE

\* ReadingScore.submission / ListeningScore.submission: a OneToOneField.  A
\* Score for submission s can join the Score rows only if none is of s.
Score_one_to_one(rows, s) == \A sc \in rows : sc.submission_id # s

\* An Answer row as save_answer creates it; is_correct defaults to False.
AnswerRow(q, answer_list) ==
    [question_number |-> q, user_answers |-> json_dumps(List(answer_list)),
     is_correct |-> FALSE]

\* The check of the skill's service on the two values read from the stored
\* JSON; "for ans in correct_answers" iterates the reference value as
\* "for ans in user_answers" iterates the user's.
ServiceCheck(sk, user, correct, om) ==
    IF sk = "listening"
    THEN Listening_check_answer_correctness(user, Iterate(correct), om)
    ELSE check_answer_correctness(user, Iterate(correct), om)

ServiceBand(sk, correct, total) ==
    IF sk = "listening"
    THEN Listening_calculate_band_score(correct, total)
    ELSE calculate_band_score(correct, total)

\* (correct_count / total_questions * 100) if total_questions > 0 else 0,
\* kept as the exact ratio num/den.
Percentage(correct, total) ==
    IF total > 0 THEN [num |-> 100 * correct, den |-> total]
    ELSE [num |-> 0, den |-> 1]

\* The body of "for q_num in range(...)": the question is counted, the
\* submission's answer for the number is looked up, checked against the
\* pack's list for str(q_num) and flagged.  (submission, question_number) is
\* unique among the Answer rows, so the first match is the only one.
GradeQuestion(sk, pack, q, acc) ==
    LET found == {a \in acc.answers : a.question_number = q}
    IN  IF found = {}
        THEN [acc EXCEPT !.total_questions = @ + 1]
        ELSE LET user_answer == CHOOSE a \in found : TRUE
                 user_ans_list == json_loads(user_answer.user_answers)
                 correct_ans_list ==
                     DictGet(json_loads(pack.correct_answers), ToString(q))
                 ok == ServiceCheck(sk, user_ans_list, correct_ans_list,
                                    pack.order_matters)
             IN  [answers |-> (acc.answers \ {user_answer})
                                \cup {[user_answer EXCEPT !.is_correct = ok]},
                  correct_count |-> acc.correct_count + (IF ok THEN 1 ELSE 0),
                  total_questions |-> acc.total_questions + 1]

\* for q_num in range(question_start, question_end + 1)
RECURSIVE GradePack(_, _, _, _)
GradePack(sk, pack, qs, acc) ==
    IF qs = <<>> THEN acc
    ELSE GradePack(sk, pack, Tail(qs), GradeQuestion(sk, pack, Head(qs), acc))

\* for question_pack in passage.question_packs
RECURSIVE GradeUnit(_, _, _)
GradeUnit(sk, packs, acc) ==
    IF packs = <<>> THEN acc
    ELSE GradeUnit(sk, Tail(packs),
                   GradePack(sk, Head(packs), QuestionRange(Head(packs)), acc))

\* for passage in test.passages / for section in test.sections
RECURSIVE GradeTest(_, _, _)
GradeTest(sk, units, acc) ==
    IF units = <<>> THEN acc
    ELSE GradeTest(sk, Tail(units), GradeUnit(sk, Head(units), acc))

\* The counts and flags grade_submission computes before it stores them.
Graded(sk, t, rows) ==
    GradeTest(sk, t, [answers |-> rows, correct_count |-> 0, total_questions |-> 0])

\* A JSONField(null=True) that the constructor of the row is not given.
Null == [kind |-> "null"]

\* The Score row grade_submission builds.  ListeningScore has the column
\* section_scores; ListeningScore(...) is called without it, the dict of the
\* per-section counts stays a local of grade_submission.
ScoreRow(sk, s, g) ==
    IF sk = "listening"
    THEN [submission_id |-> s,
          correct_answers |-> g.correct_count,
          total_questions |-> g.total_questions,
          band_score |-> ServiceBand(sk, g.correct_count, g.total_questions),
          percentage |-> Percentage(g.correct_count, g.total_questions),
          section_scores |-> Null]
    ELSE [submission_id |-> s,
          correct_answers |-> g.correct_count,
          total_questions |-> g.total_questions,
          band_score |-> ServiceBand(sk, g.correct_count, g.total_questions),
          percentage |-> Percentage(g.correct_count, g.total_questions)]

\* ------------------------------------------------------------------------
\* Spec: a test, one submission, answers saved and the submission graded
\* ------------------------------------------------------------------------

London == <<"L", "o", "n", "d", "o", "n">>
london == <<"l", "o", "n", "d", "o", "n">>
Paris == <<"P", "a", "r", "i", "s">>
France == <<"F", "r", "a", "n", "c", "e">>
cat == <<"c", "a", "t">>
dog == <<"d", "o", "g">>

PackA ==
    QuestionPack(1, 2, ("1" :> List(<<London>>))
                         @@ ("2" :> List(<<Paris, France>>)), TRUE)
PackB == QuestionPack(3, 3, ("3" :> List(<<cat, dog>>)), FALSE)
\* overlaps both, and has no entry for question 3
PackC == QuestionPack(2, 3, ("2" :> List(<<France, Paris>>)), FALSE)
\* an empty range
PackD == QuestionPack(2, 1, EmptyDict, TRUE)

PackChoices == {PackA, PackB, PackC, PackD}

MaxPacks == 2

RECURSIVE PackLists(_)
PackLists(n) ==
    IF n = 0 THEN {<<>>}
    ELSE LET shorter == PackLists(n - 1)
         IN  shorter \cup {Append(l, k) : l \in {x \in shorter : Len(x) = n - 1},
                                           k \in PackChoices}

\* unique_together = [passage, question_start, question_end]: no two packs
\* of one passage (section) have the same range.
UniqueRanges(packs) ==
    \A i, j \in DOMAIN packs :
        (/\ packs[i].question_start = packs[j].question_start
         /\ packs[i].question_end = packs[j].question_end) => i = j

\* Tests of two passages (sections) holding at most MaxPacks packs.
TestChoices ==
    {t \in {<<first, second>> : first \in PackLists(MaxPacks),
                                second \in PackLists(MaxPacks)} :
        /\ Len(t[1]) + Len(t[2]) <= MaxPacks
        /\ UniqueRanges(t[1]) /\ UniqueRanges(t[2])}

SubmissionIds == {1}

\* The question numbers the packs of PackChoices cover; a test that lacks
\* the pack of a number leaves that number outside every range.
QuestionNumbers == {1, 2, 3}

\* The answers a user may send for a question number.
AnswerChoices(q) ==
    CASE q = 1 -> {<<London>>, <<london>>, <<>>}
      [] q = 2 -> {<<Paris, France>>, <<France, Paris>>, <<>>}
      [] OTHER -> {<<cat, dog>>, <<dog, cat>>, <<>>}

Init ==
    /\ skill \in {"reading", "listening"}
    /\ test \in TestChoices
    /\ submissions = {}
    /\ answers = [s \in SubmissionIds |-> {}]
    /\ scores = {}
    /\ grade_response = "none"
    /\ MatchIdle
    /\ BandIdle
    /\ ExtraIdle

\* create_submission: a new row with the next free id.
CreateSubmission ==
    /\ \E s \in SubmissionIds :
          /\ s \notin submissions
          /\ \A smaller \in SubmissionIds : smaller < s => smaller \in submissions
          /\ submissions' = submissions \cup {s}
    /\ UNCHANGED <<skill, test, answers, scores, grade_response, mvars, bvars, xvars>>

\* save_answer: the row is inserted; the commit fails, and nothing is
\* stored, when the submission does not exist (foreign key) or already
\* holds an Answer for the question number (ReadingAnswer.Meta:
\* unique_together = [submission, question_number]).
SaveAnswer ==
    /\ \E s \in SubmissionIds, q \in QuestionNumbers :
          \E answer_list \in AnswerChoices(q) :
              IF s \in submissions /\ Answer_unique_together(answers[s], q)
              THEN answers' = [answers EXCEPT ![s] = @ \cup {AnswerRow(q, answer_list)}]
              ELSE UNCHANGED answers
    /\ UNCHANGED <<skill, test, submissions, scores, grade_response, mvars, bvars, xvars>>

\* A faulty variant of grade_submission: the "if not submission" test
\* forgotten, the answers of the id graded whether or not the row exists.
GradeSubmission_unguarded ==
    /\ \E s \in SubmissionIds :
          LET g == Graded(skill, test, answers[s])
          IN  IF Score_one_to_one(scores, s)
              THEN /\ answers' = [answers EXCEPT ![s] = g.answers]
                   /\ scores' = scores \cup {ScoreRow(skill, s, g)}
                   /\ grade_response' = "ok"
              ELSE /\ grade_response' = "error"
                   /\ UNCHANGED <<answers, scores>>
    /\ UNCHANGED <<skill, test, submissions, mvars, bvars, xvars>>

\* grade_submission and the grade route: not found (404) without the
\* submission; otherwise the flags and the Score are committed together, and
\* the commit fails as a whole when the submission already has its one Score
\* (ReadingScore.submission is a OneToOneField).
GradeSubmission ==
    /\ \E s \in SubmissionIds :
          IF s \notin submissions
          THEN /\ grade_response' = "not_found"
               /\ UNCHANGED <<answers, scores>>
          ELSE LET g == Graded(skill, test, answers[s])
               IN  IF Score_one_to_one(scores, s)
                   THEN /\ answers' = [answers EXCEPT ![s] = g.answers]
                        /\ scores' = scores \cup {ScoreRow(skill, s, g)}
                        /\ grade_response' = "ok"
                   ELSE /\ grade_response' = "error"
                        /\ UNCHANGED <<answers, scores>>
    /\ UNCHANGED <<skill, test, submissions, mvars, bvars, xvars>>

Next == CreateSubmission \/ SaveAnswer \/ GradeSubmission

Spec == Init /\ [][Next]_vars

\* ------------------------------------------------------------------------
\* SpecService: the service functions called with any stored text and any
\* argument, and what each call answered
\* ------------------------------------------------------------------------

\* The admin routes store the correct_answers text of a request as it came:
\* here the entry of question 1 is the bare string "cat", not a list.
PackE == QuestionPack(1, 1, ("1" :> Str(cat)), TRUE)

\* Tests of one passage (section) with one pack.
ServiceTests == {<<<<pack>>>> : pack \in {PackA, PackB, PackE}}

\* The user_answers arguments of a save_answer call: the lists of the
\* route, the list of the letters c, a, t, and the bare string "cat" (the
\* List[str] annotation of the service is not enforced).
ServiceAnswerValues(q) ==
    {List(l) : l \in AnswerChoices(q)}
        \cup {List(<<<<"c">>, <<"a">>, <<"t">>>>), Str(cat)}

\* The Answer row save_answer creates from its argument.
StoredAnswerRow(q, value) ==
    [question_number |-> q, user_answers |-> json_dumps(value),
     is_correct |-> FALSE]

ServiceInit ==
    /\ skill \in {"reading", "listening"}
    /\ test \in ServiceTests
    /\ submissions = {}
    /\ answers = [s \in SubmissionIds |-> {}]
    /\ scores = {}
    /\ grade_response = "none"
    /\ save_response = "none"
    /\ MatchIdle
    /\ BandIdle
    /\ WritingIdle
    /\ SpeakingIdle
    /\ AdminIdle
    /\ LaterIdle

\* save_answer with its outcome: the row is added and returned, or the
\* commit fails (no such submission, or the submission already holds an
\* Answer for the question number) and nothing is stored.
ServiceSaveAnswer ==
    /\ \E s \in SubmissionIds, q \in QuestionNumbers :
          \E value \in ServiceAnswerValues(q) :
              IF s \in submissions /\ Answer_unique_together(answers[s], q)
              THEN /\ answers' = [answers EXCEPT
                                     ![s] = @ \cup {StoredAnswerRow(q, value)}]
                   /\ save_response' = "ok"
              ELSE /\ save_response' = "error"
                   /\ UNCHANGED answers
    /\ UNCHANGED <<skill, test, submissions, scores, grade_response,
                   mvars, bvars, wvars, kvars, avars, yvars>>

ServiceNext == CreateSubmission \/ ServiceSaveAnswer \/ GradeSubmission

SpecService == ServiceInit /\ [][ServiceNext]_vars

\* ------------------------------------------------------------------------
\* SpecWriting: the overall score of the four criterion scores
\* ------------------------------------------------------------------------

\* Criterion scores and overall scores are kept in half bands: 13 is 6.5.

\* Python's round(num / den) of a non-negative quotient that the float
\* holds exactly: the nearest integer, a tie going to the even neighbour.
round(num, den) ==
    LET floor == num \div den
        twice == 2 * (num % den)
    IN  IF twice < den THEN floor
        ELSE IF twice > den THEN floor + 1
        ELSE IF floor % 2 = 0 THEN floor ELSE floor + 1

\* Decimal.quantize(Decimal('1'), rounding=ROUND_HALF_UP) of a non-negative
\* quotient: the nearest integer, a tie going up.
quantize_ROUND_HALF_UP(num, den) ==
    LET floor == num \div den
    IN  IF 2 * (num % den) >= den THEN floor + 1 ELSE floor

CriterionNames ==
    {"task_achievement", "coherence_cohesion", "lexical_resource",
     "grammatical_range"}

\* ai_analysis.get(name, 6.0)
DefaultCriterion == 12

\* A criterion the analysis holds as null: Python's None, kept as a value
\* that no score has.
None == -1

AnalysisGet(ai_analysis, name) ==
    IF name \in DOMAIN ai_analysis THEN ai_analysis[name] ELSE DefaultCriterion

\* WritingService.calculate_score: total is the sum of the four scores and
\* overall_score = round(total / 4 * 2) / 2.  With s the sum of the half
\* bands, total / 4 * 2 is s / 4, a multiple of 0.25 that the float holds
\* exactly, and the overall score in half bands is round(s / 4).
calculate_score(ai_analysis) ==
    LET total == AnalysisGet(ai_analysis, "task_achievement")
                   + AnalysisGet(ai_analysis, "coherence_cohesion")
                   + AnalysisGet(ai_analysis, "lexical_resource")
                   + AnalysisGet(ai_analysis, "grammatical_range")
    IN  round(total, 4)

\* SpeakingScore.calculate_overall: avg = sum / Decimal('4') and
\* (avg * 2).quantize(Decimal('1'), rounding=ROUND_HALF_UP) / 2.
calculate_overall(scores4) ==
    quantize_ROUND_HALF_UP(scores4["task_achievement"]
                             + scores4["coherence_cohesion"]
                             + scores4["lexical_resource"]
                             + scores4["grammatical_range"], 4)

\* The highest band, 9.0, in half bands.
MaxHalfBand == 18

HalfBandScores == 0..MaxHalfBand

\* The analyses: each of the four criteria scored, or all but one scored and
\* that one absent or null.
Analyses ==
    UNION {[names -> HalfBandScores] :
              names \in {CriterionNames} \cup {CriterionNames \ {name} :
                                                  name \in CriterionNames}}
    \cup {[name \in CriterionNames |-> IF name = null THEN None ELSE a[name]] :
            null \in CriterionNames, a \in [CriterionNames -> HalfBandScores]}

WritingInit ==
    /\ criteria \in Analyses
    /\ overall_score = 0
    /\ wpc = "input"
    /\ MatchIdle
    /\ BandIdle
    /\ DataIdle
    /\ save_response = "idle"
    /\ SpeakingIdle
    /\ AdminIdle
    /\ LaterIdle

\* WritingService.calculate_score on the analysis: the row with the overall
\* score is stored; the sum raises TypeError, and nothing is stored, when a
\* criterion is None.
WritingScore ==
    /\ wpc = "input"
    /\ IF \E name \in CriterionNames : AnalysisGet(criteria, name) = None
       THEN wpc' = "writing_error" /\ UNCHANGED overall_score
       ELSE wpc' = "writing" /\ overall_score' = calculate_score(criteria)
    /\ UNCHANGED <<criteria, mvars, bvars, dvars, save_response, kvars, avars,
                   yvars>>

\* SpeakingScore.save on a row holding the same four scores (a field that
\* was not given is None): the overall score is calculated when none of the
\* four is None.
SpeakingScoreSave ==
    /\ wpc = "input"
    /\ IF /\ DOMAIN criteria = CriterionNames
          /\ \A name \in CriterionNames : criteria[name] # None
       THEN overall_score' = calculate_overall(criteria)
       ELSE UNCHANGED overall_score
    /\ wpc' = "speaking"
    /\ UNCHANGED <<criteria, mvars, bvars, dvars, save_response, kvars, avars,
                   yvars>>

WritingNext == WritingScore \/ SpeakingScoreSave

SpecWriting == WritingInit /\ [][WritingNext]_vars

\* ------------------------------------------------------------------------
\* SpecSpeaking: the follow-up limit and the choice of the next question
\* ------------------------------------------------------------------------

\* A faulty variant of can_have_followup: a count at the limit still allowed.
can_have_followup_inclusive(count, tp) == count <= tp.max_followups

\* SpeakingResponse.can_have_followup:
\* self.followup_count < self.topic.max_followups
can_have_followup(count, tp) == count < tp.max_followups

\* filter(is_active == True): the active rows, in the order of the query.
ActiveQuestions(qs) == SelectSeq(qs, LAMBDA q : q.is_active)

\* itertools.accumulate(weights)
RECURSIVE accumulate(_)
accumulate(weights) ==
    IF weights = <<>> THEN <<>>
    ELSE LET front == accumulate(SubSeq(weights, 1, Len(weights) - 1))
         IN  Append(front, (IF front = <<>> THEN 0 ELSE front[Len(front)])
                              + weights[Len(weights)])

\* bisect(cum_weights, x, 0, hi) on a sorted list: the number of the first
\* hi entries that are <= x (a position counted from 0).
bisect(cum_weights, x, hi) == Cardinality({i \in 1..hi : cum_weights[i] <= x})

\* The total of the weights that random.choices draws below.
Total(population) ==
    LET cum_weights == accumulate([i \in DOMAIN population |->
                                      population[i].difficulty_weight])
    IN  cum_weights[Len(cum_weights)]

\* random.choices(population, weights=weights, k=1)[0] of a non-empty
\* population with a positive total, for the draw random() * total lying in
\* [x, x + 1): population[bisect(cum_weights, random() * total, 0, n - 1)].
\* The cumulative weights are integers, so every draw of the interval finds
\* the same position.
choices(population, x) ==
    LET cum_weights == accumulate([i \in DOMAIN population |->
                                      population[i].difficulty_weight])
    IN  population[bisect(cum_weights, x, Len(population) - 1) + 1]

NoQuestion == [kind |-> "None", id |-> 0]
Raised == [kind |-> "ValueError", id |-> 0]
Question(q) == [kind |-> "question", id |-> q.id]

MaxFollowups == 2
MaxQuestions == 2
MaxWeight == 2

RECURSIVE QuestionLists(_)
QuestionLists(n) ==
    IF n = 0 THEN {<<>>}
    ELSE LET shorter == QuestionLists(n - 1)
         IN  shorter \cup
               {Append(l, [id |-> n, is_active |-> active,
                           difficulty_weight |-> weight]) :
                  l \in {x \in shorter : Len(x) = n - 1},
                  active \in BOOLEAN, weight \in 0..MaxWeight}

\* A topic id with or without its SpeakingTopic row; questions belong to a
\* topic row (foreign key), so a missing topic has none.
SpeakingInit ==
    /\ topic \in {[found |-> FALSE, id |-> 1, max_followups |-> 0]}
                   \cup {[found |-> TRUE, id |-> 1, max_followups |-> m] :
                            m \in 0..MaxFollowups}
    /\ followup_count \in 0..(MaxFollowups + 1)
    /\ followup_allowed = FALSE
    /\ questions \in QuestionLists(MaxQuestions)
    /\ ~topic.found => questions = <<>>
    /\ session \in {[found |-> found, status |-> "started",
                     current_question_id |-> 0, current_topic_id |-> 0] :
                       found \in BOOLEAN}
    /\ selected = [kind |-> "idle", id |-> 0]
    /\ spc = "input"
    /\ MatchIdle
    /\ BandIdle
    /\ DataIdle
    /\ save_response = "idle"
    /\ WritingIdle
    /\ AdminIdle
    /\ LaterIdle

\* SpeakingResponse.can_have_followup on a response of the topic.
CanHaveFollowup ==
    /\ spc = "input"
    /\ topic.found
    /\ followup_allowed' = can_have_followup(followup_count, topic)
    /\ spc' = "followup"
    /\ UNCHANGED <<topic, followup_count, questions, session, selected,
                   mvars, bvars, dvars, save_response, wvars, avars, yvars>>

\* SpeakingService.get_next_question: None without the topic or without
\* active questions; random.choices raises ValueError when the weights
\* total zero; otherwise the question drawn is noted in the session row, if
\* there is one, and returned.
ServiceGetNextQuestion ==
    /\ spc = "input"
    /\ spc' = "service"
    /\ LET active == ActiveQuestions(questions)
       IN  IF ~topic.found \/ active = <<>>
           THEN selected' = NoQuestion /\ UNCHANGED session
           ELSE IF Total(active) <= 0
           THEN selected' = Raised /\ UNCHANGED session
           ELSE \E x \in 0..(Total(active) - 1) :
                   /\ selected' = Question(choices(active, x))
                   /\ session' =
                        IF session.found
                        THEN [session EXCEPT
                                !.current_question_id = choices(active, x).id,
                                !.current_topic_id = topic.id,
                                !.status = "in_progress"]
                        ELSE session
    /\ UNCHANGED <<topic, followup_count, followup_allowed, questions,
                   mvars, bvars, dvars, save_response, wvars, avars, yvars>>

\* SpeakingSession.get_next_question(topic): the same choice, made by the
\* session row for a topic row; nothing is stored.
SessionGetNextQuestion ==
    /\ spc = "input"
    /\ session.found
    /\ topic.found
    /\ spc' = "session"
    /\ LET active == ActiveQuestions(questions)
       IN  IF active = <<>>
           THEN selected' = NoQuestion
           ELSE IF Total(active) <= 0
           THEN selected' = Raised
           ELSE \E x \in 0..(Total(active) - 1) :
                   selected' = Question(choices(active, x))
    /\ UNCHANGED <<topic, followup_count, followup_allowed, questions, session,
                   mvars, bvars, dvars, save_response, wvars, avars, yvars>>

SpeakingNext ==
    CanHaveFollowup \/ ServiceGetNextQuestion \/ SessionGetNextQuestion

SpecSpeaking == SpeakingInit /\ [][SpeakingNext]_vars

\* ------------------------------------------------------------------------
\* SpecAdmin: the admin routes creating, updating and deleting question
\* packs
\* ------------------------------------------------------------------------

\* The ids of the passages (sections) packs are created for.
Passages == {1, 2}

\* The ids the question-pack table hands out.
MaxPackRows == 2

\* The correct_answers texts of the requests.
AnswerTexts ==
    {json_dumps(EmptyDict), json_dumps("1" :> List(<<London>>))}

\* An optional field of an update request: <<>> for None, <<value>> else.
Optional(values) == {<<>>} \cup {<<v>> : v \in values}

\* ReadingQuestionPack.Meta / ListeningQuestionPack.Meta: unique_together =
\* [passage, question_start, question_end].  A row can join the packs only
\* if none of them has its passage and its two numbers.
Pack_unique_together(rows, passage_id, qstart, qend) ==
    \A r \in rows :
        ~(/\ r.passage_id = passage_id
          /\ r.question_start = qstart
          /\ r.question_end = qend)

AdminInit ==
    /\ question_packs = {}
    /\ next_pack_id = 1
    /\ admin_response = "none"
    /\ MatchIdle
    /\ BandIdle
    /\ DataIdle
    /\ save_response = "idle"
    /\ WritingIdle
    /\ SpeakingIdle
    /\ LaterIdle

\* create_reading_question_pack: the row is built from the request as it
\* came and committed; the commit fails when the passage already has a pack
\* with the same two numbers.
CreateQuestionPack ==
    /\ next_pack_id <= MaxPackRows
    /\ \E passage_id \in Passages, qstart \in QuestionNumbers,
          qend \in QuestionNumbers, text \in AnswerTexts, om \in BOOLEAN :
          IF Pack_unique_together(question_packs, passage_id, qstart, qend)
          THEN /\ question_packs' = question_packs \cup
                     {[id |-> next_pack_id, passage_id |-> passage_id,
                       question_start |-> qstart, question_end |-> qend,
                       correct_answers |-> text, order_matters |-> om]}
               /\ next_pack_id' = next_pack_id + 1
               /\ admin_response' = "created"
          ELSE /\ admin_response' = "error"
               /\ UNCHANGED <<question_packs, next_pack_id>>
    /\ UNCHANGED <<mvars, bvars, dvars, save_response, wvars, kvars, yvars>>

\* update_reading_question_pack: 404 without the row; otherwise the fields
\* the request gives replace the row's (the range is not among them).
UpdateQuestionPack ==
    /\ \E pack_id \in 1..MaxPackRows, text \in Optional(AnswerTexts),
          om \in Optional(BOOLEAN) :
          IF \E pack \in question_packs : pack.id = pack_id
          THEN LET pack == CHOOSE r \in question_packs : r.id = pack_id
                   updated ==
                       [pack EXCEPT
                          !.correct_answers = IF text # <<>> THEN text[1] ELSE @,
                          !.order_matters = IF om # <<>> THEN om[1] ELSE @]
               IN  /\ question_packs' = (question_packs \ {pack}) \cup {updated}
                   /\ admin_response' = "updated"
          ELSE /\ admin_response' = "not_found"
               /\ UNCHANGED question_packs
    /\ UNCHANGED <<next_pack_id, mvars, bvars, dvars, save_response, wvars, kvars,
                   yvars>>

\* delete_reading_question_pack: 404 without the row; otherwise it is
\* deleted.
DeleteQuestionPack ==
    /\ \E pack_id \in 1..MaxPackRows :
          IF \E pack \in question_packs : pack.id = pack_id
          THEN /\ question_packs' = {r \in question_packs : r.id # pack_id}
               /\ admin_response' = "deleted"
          ELSE /\ admin_response' = "not_found"
               /\ UNCHANGED question_packs
    /\ UNCHANGED <<next_pack_id, mvars, bvars, dvars, save_response, wvars, kvars,
                   yvars>>

AdminNext == CreateQuestionPack \/ UpdateQuestionPack \/ DeleteQuestionPack

SpecAdmin == AdminInit /\ [][AdminNext]_vars

\* ------------------------------------------------------------------------
\* SpecLookup: get_question_pack_by_number called with any test id and any
\* question number
\* ------------------------------------------------------------------------

\* A faulty variant of the range test of the lookup: the upper end left out.
Contains_exclusive(pack, question_number) ==
    pack.question_start <= question_number /\ question_number < pack.question_end

\* pack.question_start <= question_number <= pack.question_end
Contains(pack, question_number) ==
    pack.question_start <= question_number /\ question_number <= pack.question_end

\* What the lookup returns: a pack, named by where it stands in the test, or
\* None.
Found(u, k) == [kind |-> "found", unit |-> u, pack |-> k]
NotFound == [kind |-> "not_found", unit |-> 0, pack |-> 0]

\* for pack in passage.question_packs: the position of the first pack from
\* position k on that contains the number, 0 when the loop ends without one.
RECURSIVE FirstPack(_, _, _)
FirstPack(packs, question_number, k) ==
    IF k > Len(packs) THEN 0
    ELSE IF Contains(packs[k], question_number) THEN k
    ELSE FirstPack(packs, question_number, k + 1)

\* for passage in test.passages (for section in test.sections), from unit u
\* on: return the first pack found, None after the last unit.
RECURSIVE FirstUnit(_, _, _)
FirstUnit(t, question_number, u) ==
    IF u > Len(t) THEN NotFound
    ELSE LET k == FirstPack(t[u], question_number, 1)
         IN  IF k > 0 THEN Found(u, k)
             ELSE FirstUnit(t, question_number, u + 1)

\* The id of the stored test; a request may name another id.
TestIds == {1}
RequestedTestIds == {1, 2}

\* ReadingService / ListeningService.get_question_pack_by_number: None when
\* no test has the id, else the first pack that contains the number.
get_question_pack_by_number(t, test_id, question_number) ==
    IF test_id \notin TestIds THEN NotFound
    ELSE FirstUnit(t, question_number, 1)

\* A pack whose range is inverted by two: the admin route stores whatever
\* ends it is given.
PackF == QuestionPack(3, 1, EmptyDict, TRUE)

\* The question numbers asked for: those of the packs and one on each side.
LookupNumbers == {0, 1, 2, 3, 4}

LookupInit ==
    /\ skill \in {"reading", "listening"}
    /\ test \in TestChoices \cup {<<<<PackF>>, <<>>>>, <<<<PackA>>, <<PackF>>>>}
    /\ submissions = {}
    /\ answers = [s \in SubmissionIds |-> {}]
    /\ scores = {}
    /\ grade_response = "none"
    /\ pack_result = [test_id |-> 0, question_number |-> 0,
                      returned |-> [kind |-> "none", unit |-> 0, pack |-> 0]]
    /\ progress = "idle"
    /\ MatchIdle
    /\ BandIdle
    /\ save_response = "idle"
    /\ WritingIdle
    /\ SpeakingIdle
    /\ AdminIdle
    /\ FollowupIdle
    /\ PairIdle

GetQuestionPackByNumber ==
    /\ \E test_id \in RequestedTestIds, question_number \in LookupNumbers :
          pack_result' =
              [test_id |-> test_id, question_number |-> question_number,
               returned |-> get_question_pack_by_number(test, test_id,
                                                        question_number)]
    /\ UNCHANGED <<progress, mvars, bvars, dvars, save_response, wvars, kvars,
                   avars, fvars, grading>>

LookupNext == GetQuestionPackByNumber

SpecLookup == LookupInit /\ [][LookupNext]_vars

\* ------------------------------------------------------------------------
\* SpecProgress: answers saved for a submission and get_user_progress called
\* ------------------------------------------------------------------------

\* total_questions += (pack.question_end - pack.question_start + 1), over the
\* packs of one passage (section) and over the units of the test.
RECURSIVE PackTotal(_)
PackTotal(packs) ==
    IF packs = <<>> THEN 0
    ELSE (Head(packs).question_end - Head(packs).question_start + 1)
         + PackTotal(Tail(packs))

RECURSIVE TestTotal(_)
TestTotal(t) ==
    IF t = <<>> THEN 0 ELSE PackTotal(Head(t)) + TestTotal(Tail(t))

\* A current_section value: the section_type of the section standing at a
\* position of the test (the sections of a test have different types), None,
\* or no such key (Reading).
Section(u) == [kind |-> "section", unit |-> u]
NoSection == [kind |-> "none", unit |-> 0]
NoSectionKey == [kind |-> "absent", unit |-> 0]

\* max(answer.question_number for answer in answers)
max(numbers) == CHOOSE n \in numbers : \A other \in numbers : other <= n

\* len(section_questions): the ranges of the section's packs, one after the
\* other; range(start, end + 1) is empty when end < start.
RECURSIVE SectionQuestionCount(_)
SectionQuestionCount(packs) ==
    IF packs = <<>> THEN 0
    ELSE Len(QuestionRange(Head(packs))) + SectionQuestionCount(Tail(packs))

\* answered_in_section: the answers whose number is in section_questions.
AnsweredInSection(rows, packs) ==
    {a \in rows : \E k \in DOMAIN packs :
                     a.question_number \in Range(QuestionRange(packs[k]))}

\* The inner loop of get_current_section from pack k of section u on: at a
\* pack that holds max_question the section is returned when it has more
\* questions than answers, otherwise "continue" goes on with the next pack.
RECURSIVE CurrentPack(_, _, _, _, _)
CurrentPack(t, rows, max_question, u, k) ==
    IF k > Len(t[u]) THEN NoSection
    ELSE IF /\ Contains(t[u][k], max_question)
            /\ Cardinality(AnsweredInSection(rows, t[u]))
                  < SectionQuestionCount(t[u])
    THEN Section(u)
    ELSE CurrentPack(t, rows, max_question, u, k + 1)

\* The outer loop from section u on; None after the last section.
RECURSIVE CurrentUnit(_, _, _, _)
CurrentUnit(t, rows, max_question, u) ==
    IF u > Len(t) THEN NoSection
    ELSE LET here == CurrentPack(t, rows, max_question, u, 1)
         IN  IF here.kind = "section" THEN here
             ELSE CurrentUnit(t, rows, max_question, u + 1)

\* ListeningService.get_current_section
get_current_section(rows, t) ==
    IF rows = {}
    THEN IF t # <<>> THEN Section(1) ELSE NoSection
    ELSE CurrentUnit(t, rows, max({a.question_number : a \in rows}), 1)

\* ReadingService / ListeningService.get_user_progress: {} without the
\* submission, else the counts, the percentage as the exact ratio num/den
\* and, for Listening, the current section.
get_user_progress(sk, t, existing, rows, submission_id) ==
    IF submission_id \notin existing
    THEN [kind |-> "empty", submission_id |-> submission_id,
          total_questions |-> 0, answered_questions |-> 0,
          progress_percentage |-> [num |-> 0, den |-> 1],
          current_section |-> NoSectionKey]
    ELSE [kind |-> "progress", submission_id |-> submission_id,
          total_questions |-> TestTotal(t),
          answered_questions |-> Cardinality(rows),
          progress_percentage |-> Percentage(Cardinality(rows), TestTotal(t)),
          current_section |-> IF sk = "listening"
                              THEN get_current_section(rows, t)
                              ELSE NoSectionKey]

\* The tests of the grading specification, a test without units, and tests
\* with the inverted pack.
ProgressTests ==
    TestChoices \cup {<<>>, <<<<PackF>>, <<>>>>, <<<<PackA>>, <<PackF>>>>}

ProgressInit ==
    /\ skill \in {"reading", "listening"}
    /\ test \in ProgressTests
    /\ submissions = {}
    /\ answers = [s \in SubmissionIds |-> {}]
    /\ scores = {}
    /\ grade_response = "none"
    /\ pack_result = "idle"
    /\ progress = [kind |-> "none", submission_id |-> 0,
                   total_questions |-> 0, answered_questions |-> 0,
                   progress_percentage |-> [num |-> 0, den |-> 1],
                   current_section |-> NoSectionKey]
    /\ MatchIdle
    /\ BandIdle
    /\ save_response = "idle"
    /\ WritingIdle
    /\ SpeakingIdle
    /\ AdminIdle
    /\ FollowupIdle
    /\ PairIdle

GetUserProgress ==
    /\ \E submission_id \in SubmissionIds :
          progress' = get_user_progress(skill, test, submissions,
                                        answers[submission_id], submission_id)
    /\ UNCHANGED <<pack_result, mvars, bvars, dvars, save_response, wvars, kvars,
                   avars, fvars, grading>>

ProgressNext == CreateSubmission \/ SaveAnswer \/ GetUserProgress

SpecProgress == ProgressInit /\ [][ProgressNext]_vars

\* ------------------------------------------------------------------------
\* SpecFollowup: the responses of one speaking session, analysed, and
\* should_ask_followup called on them
\* ------------------------------------------------------------------------

\* len([r for r in response.session.responses
\*      if r.topic_id == topic.id and r.ai_followup_needed])
FlaggedCount(session_responses, tp) ==
    Cardinality({i \in DOMAIN session_responses :
                    /\ session_responses[i].topic_id = tp.id
                    /\ session_responses[i].ai_followup_needed})

\* SpeakingService.should_ask_followup; session_responses are the rows of
\* response.session.responses, the response among them.
should_ask_followup(response, session_responses, tp) ==
    IF ~response.ai_followup_needed THEN FALSE
    ELSE FlaggedCount(session_responses, tp) < tp.max_followups

\* The topics the responses of the session answer.
TopicIds == {1, 2}

MaxResponses == 3

FollowupInit ==
    /\ topic \in {[found |-> TRUE, id |-> 1, max_followups |-> m] :
                     m \in 0..MaxFollowups}
    /\ responses = <<>>
    /\ ask_followup = [response |-> 0, value |-> FALSE]
    /\ followup_count = 0
    /\ followup_allowed = FALSE
    /\ questions = <<>>
    /\ session = <<>>
    /\ selected = "idle"
    /\ spc = "idle"
    /\ MatchIdle
    /\ BandIdle
    /\ DataIdle
    /\ save_response = "idle"
    /\ WritingIdle
    /\ AdminIdle
    /\ QueryIdle
    /\ PairIdle

\* save_response: a new row of the session; ai_followup_needed defaults to
\* False.
SaveResponse ==
    /\ Len(responses) < MaxResponses
    /\ \E topic_id \in TopicIds :
          responses' = Append(responses, [topic_id |-> topic_id,
                                          ai_followup_needed |-> FALSE])
    /\ UNCHANGED <<ask_followup, mvars, bvars, dvars, save_response, wvars,
                   kvars, avars, qvars, grading>>

\* update_response_with_analysis: the AI's decision is written to the row.
UpdateResponseWithAnalysis ==
    /\ \E response_id \in DOMAIN responses, followup_needed \in BOOLEAN :
          responses' = [responses EXCEPT
                           ![response_id].ai_followup_needed = followup_needed]
    /\ UNCHANGED <<ask_followup, mvars, bvars, dvars, save_response, wvars,
                   kvars, avars, qvars, grading>>

\* should_ask_followup on a response of the session and the topic.
ShouldAskFollowup ==
    /\ \E response_id \in DOMAIN responses :
          ask_followup' =
              [response |-> response_id,
               value |-> should_ask_followup(responses[response_id],
                                             responses, topic)]
    /\ UNCHANGED <<responses, mvars, bvars, dvars, save_response, wvars, kvars,
                   avars, qvars, grading>>

FollowupNext == SaveResponse \/ UpdateResponseWithAnalysis \/ ShouldAskFollowup

SpecFollowup == FollowupInit /\ [][FollowupNext]_vars

\* ------------------------------------------------------------------------
\* SpecPair: two submissions with their answers saved, and a grade request
\* for each, interleaved
\* ------------------------------------------------------------------------

\* The flags computed on the rows a request has read, written to the stored
\* rows with the same question number.
WriteFlags(rows, flagged) ==
    {IF \E g \in flagged : g.question_number = a.question_number
     THEN [a EXCEPT !.is_correct =
              (CHOOSE g \in flagged :
                  g.question_number = a.question_number).is_correct]
     ELSE a : a \in rows}

\* A faulty variant of the commit: the flags written to the Answer rows of
\* every submission that have the question number.
CommitFlags_unkeyed(all, s, flagged) ==
    [o \in DOMAIN all |-> WriteFlags(all[o], flagged)]

\* db.commit() of grade_submission, for the Answer rows: the rows whose
\* is_correct was assigned are those of submission.answers, and they are
\* updated by their primary key.
CommitFlags(all, s, flagged) ==
    [all EXCEPT ![s] = WriteFlags(@, flagged)]

PairIds == {1, 2}

PairTests == {<<<<PackA>>, <<PackB>>>>, <<<<PackA, PackC>>, <<>>>>}

\* The answers saved for a question number before the grading starts.
PairAnswerChoices(q) ==
    CASE q = 1 -> {<<London>>, <<>>}
      [] q = 2 -> {<<Paris, France>>, <<France, Paris>>}
      [] OTHER -> {<<cat, dog>>, <<>>}

\* The sets of Answer rows a submission may hold: for every question number
\* no row, or the row of one of its answers.
PairAnswerSets ==
    {{AnswerRow(q, saved[q][1]) : q \in {n \in QuestionNumbers : saved[n] # <<>>}} :
        saved \in {f \in [QuestionNumbers ->
                            {<<>>} \cup {<<answer_list>> :
                                            answer_list \in UNION {PairAnswerChoices(n) :
                                                                      n \in QuestionNumbers}}] :
                      \A q \in QuestionNumbers :
                          f[q] # <<>> => f[q][1] \in PairAnswerChoices(q)}}

NotReading == [pc |-> "idle", rows |-> {}]

PairInit ==
    /\ skill \in {"reading", "listening"}
    /\ test \in PairTests
    /\ submissions \in {{1}, PairIds}
    /\ answers \in [PairIds -> PairAnswerSets]
    /\ \A s \in PairIds : s \notin submissions => answers[s] = {}
    /\ scores = {}
    /\ grade_response = "none"
    /\ grading = [s \in PairIds |-> NotReading]
    /\ MatchIdle
    /\ BandIdle
    /\ save_response = "idle"
    /\ WritingIdle
    /\ SpeakingIdle
    /\ AdminIdle
    /\ QueryIdle
    /\ FollowupIdle

\* grade_submission up to the loops: not found (404) without the
\* submission, else the test and submission.answers are read.
GradeRead ==
    /\ \E s \in PairIds :
          /\ grading[s].pc = "idle"
          /\ IF s \notin submissions
             THEN /\ grade_response' = "not_found"
                  /\ UNCHANGED grading
             ELSE /\ grading' = [grading EXCEPT
                                    ![s] = [pc |-> "read", rows |-> answers[s]]]
                  /\ UNCHANGED grade_response
    /\ UNCHANGED <<skill, test, submissions, answers, scores, mvars, bvars,
                   save_response, wvars, kvars, avars, qvars, fvars>>

\* grade_submission from the loops to db.commit(): the flags and the Score
\* computed from the rows read are committed together, or the commit fails
\* as a whole when the submission already has its Score.
GradeCommit ==
    /\ \E s \in PairIds :
          /\ grading[s].pc = "read"
          /\ LET g == Graded(skill, test, grading[s].rows)
             IN  IF Score_one_to_one(scores, s)
                 THEN /\ answers' = CommitFlags(answers, s, g.answers)
                      /\ scores' = scores \cup {ScoreRow(skill, s, g)}
                      /\ grade_response' = "ok"
                 ELSE /\ grade_response' = "error"
                      /\ UNCHANGED <<answers, scores>>
          /\ grading' = [grading EXCEPT ![s] = NotReading]
    /\ UNCHANGED <<skill, test, submissions, mvars, bvars, save_response, wvars,
                   kvars, avars, qvars, fvars>>

PairNext == GradeRead \/ GradeCommit

SpecPair == PairInit /\ [][PairNext]_vars

\* ------------------------------------------------------------------------
\* Properties of the answer check
\* ------------------------------------------------------------------------

\* Lowercasing and trimming stated directly: the characters between the
\* first and the last non-blank one, each lowercased.
TrimLower(s) ==
    LET keep == {i \in 1..Len(s) : ~IsSpace(s[i])}
    IN  IF keep = {} THEN <<>>
        ELSE LET lo == CHOOSE i \in keep : \A j \in keep : i <= j
                 hi == CHOOSE i \in keep : \A j \in keep : j <= i
             IN  [k \in 1..(hi - lo + 1) |-> LowerChar(s[lo + k - 1])]

Swap(l, i, j) == [l EXCEPT ![i] = l[j], ![j] = l[i]]

\* The service check the current state applied.
AppliedCheck(user, correct, om) ==
    IF mpc = "listening"
    THEN Listening_check_answer_correctness(user, correct, om)
    ELSE check_answer_correctness(user, correct, om)

ServiceChecked == mpc \in {"reading", "listening"} /\ user_answers.kind = "list"

\* C1: with order_matters true the service check returns true exactly when
\* the two lists have the same length and agree element by element after
\* lowercasing and trimming; and exchanging two elements of a correct user
\* list that differ after normalization makes the check false.
C1_OrderedMatch ==
    (ServiceChecked /\ order_matters) =>
        LET u == user_answers.val
            c == correct_answers
        IN  /\ is_correct <=>
                  /\ Len(u) = Len(c)
                  /\ \A i \in 1..Len(u) : TrimLower(u[i]) = TrimLower(c[i])
            /\ is_correct =>
                  \A i, j \in 1..Len(u) :
                      TrimLower(u[i]) # TrimLower(u[j]) =>
                          ~AppliedCheck(List(Swap(u, i, j)), c, TRUE)

\* C1 witness: a correct two-answer list that differs from the reference in
\* case or blanks and whose two answers differ.
C1_Witness ==
    /\ ServiceChecked /\ mpc = "reading" /\ order_matters /\ is_correct
    /\ Len(user_answers.val) = 2
    /\ user_answers.val[1] # correct_answers[1]
    /\ user_answers.val[2] # correct_answers[2]
    /\ TrimLower(user_answers.val[1]) # TrimLower(user_answers.val[2])

\* C2: with order_matters false the service check returns true exactly when
\* the normalized answers are equal as sets, and the result does not change
\* when either list is permuted or one of its elements is repeated.
C2_SetMatch ==
    (ServiceChecked /\ ~order_matters) =>
        LET u == user_answers.val
            c == correct_answers
        IN  /\ is_correct <=>
                  {TrimLower(u[i]) : i \in 1..Len(u)} = {TrimLower(c[i]) : i \in 1..Len(c)}
            /\ \A i, j \in 1..Len(u) :
                  AppliedCheck(List(Swap(u, i, j)), c, FALSE) = is_correct
            /\ \A i, j \in 1..Len(c) :
                  AppliedCheck(user_answers, Swap(c, i, j), FALSE) = is_correct
            /\ \A i \in 1..Len(u) :
                  AppliedCheck(List(Append(u, u[i])), c, FALSE) = is_correct
            /\ \A i \in 1..Len(c) :
                  AppliedCheck(user_answers, Append(c, c[i]), FALSE) = is_correct

\* C2 witness: a correct answer given in another order than the reference.
C2_Witness ==
    /\ ServiceChecked /\ mpc = "reading" /\ ~order_matters /\ is_correct
    /\ Len(user_answers.val) = 2 /\ Len(correct_answers) = 2
    /\ TrimLower(user_answers.val[1]) = TrimLower(correct_answers[2])
    /\ TrimLower(user_answers.val[1]) # TrimLower(correct_answers[1])

\* C3: against an empty reference list every check returns false, for every
\* user answer and both values of order_matters.
C3_EmptyReferenceFalse ==
    (/\ mpc \in {"reading", "listening", "pack"}
     /\ user_answers.kind = "list"
     /\ correct_answers = <<>>) => ~is_correct

\* ------------------------------------------------------------------------
\* Properties of the band tables
\* ------------------------------------------------------------------------

\* The published tables: <<minimum ratio in thousandths, band in tenths>>.
ReadingTable ==
    << <<900, 90>>, <<825, 85>>, <<750, 80>>, <<675, 75>>, <<600, 70>>,
       <<525, 65>>, <<450, 60>>, <<375, 55>>, <<300, 50>>, <<225, 45>>,
       <<150, 40>>, <<75, 35>> >>

ListeningTable ==
    << <<975, 90>>, <<900, 85>>, <<825, 80>>, <<750, 75>>, <<675, 70>>,
       <<600, 65>>, <<525, 60>>, <<450, 55>>, <<375, 50>>, <<300, 45>>,
       <<225, 40>>, <<150, 35>> >>

LowestBand == 30

\* The band of the highest threshold not exceeding correct/total, the
\* lowest band when the ratio is below every threshold.
TableBand(table, correct, total) ==
    LET reached == {i \in DOMAIN table : table[i][1] * total <= 1000 * correct}
    IN  IF reached = {} THEN LowestBand
        ELSE LET top == CHOOSE i \in reached :
                            \A j \in reached : table[j][1] <= table[i][1]
             IN  table[top][2]

\* C4: for total > 0 the Reading band is the band of the highest threshold
\* of the Reading table not exceeding correct/total, thresholds inclusive.
C4_ReadingBand ==
    (bpc = "reading" /\ n_total > 0) =>
        band_score = TableBand(ReadingTable, n_correct, n_total)

\* C4 witness: a ratio exactly on the 0.825 threshold.
C4_Witness ==
    bpc = "reading" /\ n_total = 40 /\ n_correct = 33 /\ band_score = 85

\* C5: for total > 0 the Listening band is the band of the highest
\* threshold of the Listening table not exceeding correct/total.
C5_ListeningBand ==
    (bpc = "listening" /\ n_total > 0) =>
        band_score = TableBand(ListeningTable, n_correct, n_total)

\* C5 witness: a ratio exactly on the 0.975 threshold.
C5_Witness ==
    bpc = "listening" /\ n_total = 40 /\ n_correct = 39 /\ band_score = 90

\* The band the service of the current state gives to another count.
AppliedBand(correct, total) ==
    IF bpc = "listening"
    THEN Listening_calculate_band_score(correct, total)
    ELSE calculate_band_score(correct, total)

\* C6: for a fixed total the band of a smaller count never exceeds the band
\* of a larger one, in both services.
C6_BandMonotone ==
    (bpc \in {"reading", "listening"}) =>
        \A c1 \in 0..n_correct : AppliedBand(c1, n_total) <= band_score

\* C6 witness: a count whose band is strictly above that of a smaller one.
C6_Witness ==
    /\ bpc \in {"reading", "listening"}
    /\ n_correct > 0
    /\ AppliedBand(n_correct - 1, n_total) < band_score

HalfBands == {30 + 5 * k : k \in 0..12}

\* C7: the band is 0.0 exactly when total = 0; for total > 0 it is one of
\* the half-point values from 3.0 to 9.0.
C7_BandRange ==
    (bpc \in {"reading", "listening"}) =>
        /\ (band_score = 0) <=> (n_total = 0)
        /\ (n_total > 0) => band_score \in HalfBands

\* C7 witness: a ratio below the lowest threshold, given the lowest band.
C7_Witness ==
    /\ bpc = "reading" /\ n_total > 0
    /\ 1000 * n_correct < 75 * n_total
    /\ band_score = LowestBand

\* C7 second case reached as well: an empty test.
C7_WitnessEmpty == bpc = "reading" /\ n_total = 0 /\ band_score = 0

\* ------------------------------------------------------------------------
\* Properties of grade_submission
\* ------------------------------------------------------------------------

\* The packs of a test: <<unit, position in the unit>>.
Positions(t) == UNION { {<<u, k>> : k \in DOMAIN t[u]} : u \in DOMAIN t }

\* Every pass of the innermost loop: <<unit, pack position, question>>.
Iterations(t) ==
    UNION { {<<p[1], p[2], q>> :
                q \in t[p[1]][p[2]].question_start .. t[p[1]][p[2]].question_end} :
            p \in Positions(t) }

PackOf(t, it) == t[it[1]][it[2]]

\* The pack's reference list for a question number, when it has one.
HasReference(pack, q) == ToString(q) \in DOMAIN pack.correct_answers.json
Reference(pack, q) == pack.correct_answers.json[ToString(q)].val

SavedList(row) == row.user_answers.json.val

\* A saved answer matches a reference list under the order flag.
Matches(user, reference, om) ==
    IF om
    THEN /\ Len(user) = Len(reference)
         /\ \A i \in 1..Len(user) : TrimLower(user[i]) = TrimLower(reference[i])
    ELSE {TrimLower(user[i]) : i \in 1..Len(user)}
           = {TrimLower(reference[i]) : i \in 1..Len(reference)}

\* The question of one pass has a saved answer that matches the pack's
\* reference list for it; a question without a reference list, or with an
\* empty one, has nothing an answer could match.
AnsweredCorrectly(t, rows, it) ==
    /\ HasReference(PackOf(t, it), it[3])
    /\ Reference(PackOf(t, it), it[3]) # <<>>
    /\ \E a \in rows :
          /\ a.question_number = it[3]
          /\ Matches(SavedList(a), Reference(PackOf(t, it), it[3]),
                     PackOf(t, it).order_matters)

Ungraded(s) == s \in submissions /\ \A sc \in scores : sc.submission_id # s

\* C8: grading an existing submission stores a Score whose total is the
\* number of questions iterated over the pack ranges and whose correct count
\* is the number of those whose saved answer matches the pack's reference
\* list; unanswered questions count in the total only, the percentage is
\* correct/total*100 (0 for total 0) and 0 <= correct <= total.
C8_GradeCounts ==
    [][\A s \in SubmissionIds :
          (GradeSubmission /\ Ungraded(s)) =>
              /\ grade_response' = "ok"
              /\ \E sc \in scores' \ scores : sc.submission_id = s
              /\ \A sc \in scores' \ scores :
                    /\ sc.total_questions = Cardinality(Iterations(test))
                    /\ sc.correct_answers =
                          Cardinality({it \in Iterations(test) :
                                          AnsweredCorrectly(test, answers[s], it)})
                    /\ sc.percentage.num * sc.total_questions
                          = 100 * sc.correct_answers * sc.percentage.den
                    /\ (sc.total_questions = 0) =>
                          (sc.percentage.num = 0 /\ sc.percentage.den = 1)
                    /\ 0 <= sc.correct_answers
                    /\ sc.correct_answers <= sc.total_questions]_vars

\* Every question of every pack has a reference list and a saved answer
\* identical to it.
AllIdentical(t, rows) ==
    \A it \in Iterations(t) :
        /\ HasReference(PackOf(t, it), it[3])
        /\ \E a \in rows :
              /\ a.question_number = it[3]
              /\ SavedList(a) = Reference(PackOf(t, it), it[3])

\* C9 as stated: a submission whose answers are all identical to the
\* references is graded correct = total with band 9.0, in both skills.
C9_AllCorrectBandNine ==
    [][\A s \in SubmissionIds :
          (GradeSubmission /\ Ungraded(s) /\ AllIdentical(test, answers[s])) =>
              \A sc \in scores' \ scores :
                  /\ sc.correct_answers = sc.total_questions
                  /\ sc.band_score = 90]_vars

\* C9 amended: correct = total, and band 9.0 when the test has at least one
\* question (a test without questions is graded 0 of 0 with band 0.0).
C9_AllCorrect ==
    [][\A s \in SubmissionIds :
          (GradeSubmission /\ Ungraded(s) /\ AllIdentical(test, answers[s])) =>
              /\ \E sc \in scores' \ scores : sc.submission_id = s
              /\ \A sc \in scores' \ scores :
                    /\ sc.correct_answers = sc.total_questions
                    /\ (Iterations(test) # {}) => sc.band_score = 90
                    /\ (Iterations(test) = {}) => sc.band_score = 0]_vars

\* C9 witness: the three questions of packs A and B answered with their
\* reference lists and graded 3 of 3, band 9.0.
C9_Witness ==
    /\ test = <<<<PackA>>, <<PackB>>>>
    /\ grade_response = "ok"
    /\ AllIdentical(test, answers[1])
    /\ \A a \in answers[1] : a.is_correct
    /\ \E sc \in scores :
          sc.correct_answers = 3 /\ sc.total_questions = 3 /\ sc.band_score = 90

ScenarioTests == {<<<<PackA, PackB>>, <<>>>>, <<<<PackA>>, <<PackB>>>>}

ScenarioAnswers ==
    {AnswerRow(1, <<london>>), AnswerRow(2, <<France, Paris>>),
     AnswerRow(3, <<dog, cat>>)}

\* C10: in the Reading scenario (pack A [1,2] ordered, pack B [3,3]
\* unordered; Q1 = london, Q2 = France, Paris, Q3 = dog, cat) grading marks
\* Q1 and Q3 correct and Q2 incorrect, with correct = 2, total = 3 and the
\* Reading band of 2/3, 7.0.
C10_Scenario ==
    [][(/\ GradeSubmission
        /\ skill = "reading"
        /\ test \in ScenarioTests
        /\ Ungraded(1)
        /\ answers[1] = ScenarioAnswers) =>
           /\ \A a \in answers'[1] : a.is_correct <=> a.question_number \in {1, 3}
           /\ {a.question_number : a \in answers'[1]} = {1, 2, 3}
           /\ \E sc \in scores' :
                 /\ sc.submission_id = 1
                 /\ sc.correct_answers = 2
                 /\ sc.total_questions = 3
                 /\ sc.band_score = 70]_vars

\* C10 witness: the scenario graded.
C10_Witness ==
    /\ skill = "reading"
    /\ test \in ScenarioTests
    /\ grade_response = "ok"
    /\ {[a EXCEPT !.is_correct = FALSE] : a \in answers[1]} = ScenarioAnswers
    /\ \A a \in answers[1] : a.is_correct <=> a.question_number \in {1, 3}
    /\ \E sc \in scores :
          sc.correct_answers = 2 /\ sc.total_questions = 3 /\ sc.band_score = 70

\* ------------------------------------------------------------------------
\* Properties of repeated and failed grading
\* ------------------------------------------------------------------------

\* The submission has been graded and nothing has changed since: grading its
\* answers again computes the Score it has and the flags its answers carry.
GradedUnchanged(s) ==
    /\ s \in submissions
    /\ ScoreRow(skill, s, Graded(skill, test, answers[s])) \in scores
    /\ Graded(skill, test, answers[s]).answers = answers[s]

\* C11: grade_submission called again on a graded submission whose answers
\* and test are unchanged answers again, with the same correct, total, band
\* and percentage, and leaves every is_correct flag as the first call set it.
C11_GradeTwice ==
    [][\A s \in SubmissionIds :
          (GradeSubmission /\ GradedUnchanged(s)) =>
              /\ grade_response' = "ok"
              /\ answers'[s] = answers[s]]_vars

\* C12: a submission never has more than one Score row, however often it is
\* graded.
C12_OneScore ==
    \A s \in SubmissionIds :
        Cardinality({sc \in scores : sc.submission_id = s}) <= 1

\* C12 witness: a graded submission has been graded again, after an answer
\* that changes its correct count was saved, and holds its one Score.
C12_Witness ==
    /\ grade_response = "error"
    /\ \E sc \in scores :
          /\ sc.submission_id = 1
          /\ sc.correct_answers # Graded(skill, test, answers[1]).correct_count

\* C13: grade_submission for an id without a Submission row answers not
\* found and leaves the Score and Answer rows as they were.
C13_GradeNotFound ==
    [][\A s \in SubmissionIds :
          (GradeSubmission /\ s \notin submissions) =>
              /\ grade_response' = "not_found"
              /\ scores' = scores
              /\ answers' = answers]_vars

\* C13 witness: the grade request of a missing submission was answered not
\* found, and there is no Score.
C13_Witness ==
    /\ grade_response = "not_found"
    /\ scores = {}

\* ------------------------------------------------------------------------
\* Properties of grading unconfigured questions
\* ------------------------------------------------------------------------

\* The passes of the innermost loop whose pack has a reference entry for the
\* question.
Configured(t) ==
    {it \in Iterations(t) : HasReference(PackOf(t, it), it[3])}

\* C17: a question inside a pack's range without an entry in the pack's
\* reference map is never counted correct, whatever was saved for it: each
\* pass of the loop adds 1 to total, only passes over configured questions
\* add to correct, and a question that no pack configures is flagged
\* incorrect.
C17_UnconfiguredIncorrect ==
    [][\A s \in SubmissionIds :
          (GradeSubmission /\ Ungraded(s)) =>
              /\ grade_response' = "ok"
              /\ \A sc \in scores' \ scores :
                    /\ sc.total_questions = Cardinality(Iterations(test))
                    /\ sc.correct_answers <= Cardinality(Configured(test))
              /\ \A a \in answers'[s] :
                    (/\ \E it \in Iterations(test) : it[3] = a.question_number
                     /\ \A it \in Configured(test) : it[3] # a.question_number)
                        => ~a.is_correct]_vars

\* ------------------------------------------------------------------------
\* Properties of stored data
\* ------------------------------------------------------------------------

\* The JSON value stored for the question of a pass, when there is one.
StoredReference(t, it) ==
    PackOf(t, it).correct_answers.json[ToString(it[3])]

\* Grading reads a value that is not a list: some pass of the loop finds a
\* saved answer for its question, and that answer's stored value, or the
\* pack's entry for the question, is a bare string.
ReadsMalformed(t, rows) ==
    \E it \in Iterations(t) : \E a \in rows :
        /\ a.question_number = it[3]
        /\ \/ a.user_answers.json.kind # "list"
           \/ /\ HasReference(PackOf(t, it), it[3])
              /\ StoredReference(t, it).kind # "list"

\* C18: when the reference entry or the stored user answers that grading
\* reads are not a list of strings, grade_submission fails and stores no
\* Score.
C18_MalformedFails ==
    [][\A s \in SubmissionIds :
          (GradeSubmission /\ Ungraded(s) /\ ReadsMalformed(test, answers[s])) =>
              /\ grade_response' # "ok"
              /\ scores' = scores]_vars

\* C19: a submission holds at most one Answer row per question number.
C19_OneAnswerPerQuestion ==
    \A s \in SubmissionIds : \A a, b \in answers[s] :
        a.question_number = b.question_number => a = b

\* C19 witness: a save_answer call for a question number the submission
\* already has an Answer for has failed, and the submission holds its rows.
C19_Witness ==
    /\ save_response = "error"
    /\ 1 \in submissions
    /\ Cardinality(answers[1]) = Cardinality(QuestionNumbers)

\* ------------------------------------------------------------------------
\* Properties of the overall writing score
\* ------------------------------------------------------------------------

\* The sum of the four criterion scores, in half bands.
CriteriaSum ==
    criteria["task_achievement"] + criteria["coherence_cohesion"]
        + criteria["lexical_resource"] + criteria["grammatical_range"]

\* The half band nearest to a quarter of the sum, the upper one on a tie:
\* the least h with 4 * h + 2 > sum.
NearestHalfBandUp(sum) ==
    CHOOSE h \in 0..(sum + 1) :
        /\ 4 * h + 2 > sum
        /\ \A g \in 0..(sum + 1) : 4 * g + 2 > sum => h <= g

\* C14: for four criterion scores that are multiples of 0.5 in [0, 9] the
\* overall score of calculate_score is the average rounded to the nearest
\* half band, a tie rounded up; 6.5, 6.0, 7.0, 6.0 give 6.5.
C14_OverallHalfUp ==
    (wpc = "writing" /\ DOMAIN criteria = CriterionNames) =>
        overall_score = NearestHalfBandUp(CriteriaSum)

\* A criterion of the analysis is absent, or null.
CriterionMissing ==
    \E name \in CriterionNames :
        name \notin DOMAIN criteria \/ criteria[name] = None

\* C25: when one of the four criterion scores is absent or null, the
\* aggregation computes and stores no overall score (overall_score keeps the
\* value it had before the call); no value stands in for the missing one.
C25_NoOverallWhenMissing ==
    (wpc # "input" /\ CriterionMissing) => (wpc # "writing" /\ overall_score = 0)

\* ------------------------------------------------------------------------
\* Properties of the speaking follow-up limit and question choice
\* ------------------------------------------------------------------------

\* C15: can_have_followup is true exactly when the response's follow-up
\* count is strictly below the topic's max_followups: false for count 1
\* with max 1, true for count 0 with max 1.
C15_FollowupLimit ==
    spc = "followup" =>
        /\ followup_allowed <=> (followup_count + 1 <= topic.max_followups)
        /\ (followup_count = 1 /\ topic.max_followups = 1) => ~followup_allowed
        /\ (followup_count = 0 /\ topic.max_followups = 1) => followup_allowed

\* C15 witness: asked at the limit (count 1, max 1) and refused.
C15_Witness ==
    /\ spc = "followup"
    /\ followup_count = 1
    /\ topic.max_followups = 1
    /\ ~followup_allowed

\* The active questions of the topic.
Candidates == {questions[i] : i \in {j \in DOMAIN questions : questions[j].is_active}}

\* C16: the choice of the next question returns no question exactly when
\* the topic has no active question; otherwise it returns an active
\* question of the topic whose weight is not zero, and the only candidate
\* when there is exactly one.
C16_NextQuestion ==
    spc \in {"service", "session"} =>
        /\ (selected = NoQuestion) <=> (Candidates = {})
        /\ (Candidates # {}) =>
              \E q \in Candidates :
                  selected = Question(q) /\ q.difficulty_weight # 0
        /\ \A q \in Candidates :
              (Candidates = {q}) => selected = Question(q)

\* ------------------------------------------------------------------------
\* Properties of the question packs the admin routes keep
\* ------------------------------------------------------------------------

\* C20: whatever packs were created, updated and deleted, every pack has
\* question_start <= question_end and no two packs of one passage have a
\* question number in common.
C20_PackRanges ==
    \A pack \in question_packs :
        /\ pack.question_start <= pack.question_end
        /\ \A other \in question_packs :
              (other.id # pack.id /\ other.passage_id = pack.passage_id) =>
                  \/ pack.question_end < other.question_start
                  \/ other.question_end < pack.question_start

\* ------------------------------------------------------------------------
\* Properties of the pack lookup
\* ------------------------------------------------------------------------

\* The positions of the packs of a test whose range holds the number.
Holding(t, n) ==
    {p \in Positions(t) :
        t[p[1]][p[2]].question_start <= n /\ n <= t[p[1]][p[2]].question_end}

\* Position p stands before position r: an earlier unit, or the same unit
\* and an earlier or the same pack.
Before(p, r) == p[1] < r[1] \/ (p[1] = r[1] /\ p[2] <= r[2])

\* No question number lies in the ranges of two packs of the test.
Disjoint(t) ==
    \A p, r \in Positions(t) :
        p # r => (t[p[1]][p[2]].question_start .. t[p[1]][p[2]].question_end)
                   \cap (t[r[1]][r[2]].question_start .. t[r[1]][r[2]].question_end)
                 = {}

LookedUp == pack_result.returned.kind # "none"

\* C21: get_question_pack_by_number returns the first pack, in unit order
\* then pack order, whose range holds the number; it returns not-found
\* exactly when the test does not exist or no pack holds the number; a
\* returned pack holds the number, and is the only pack that does when the
\* ranges of the test do not overlap.
C21_FirstPackHolding ==
    LookedUp =>
        LET n == pack_result.question_number
            r == pack_result.returned
            holding == Holding(test, n)
        IN  /\ r.kind = "not_found"
                <=> (pack_result.test_id \notin TestIds \/ holding = {})
            /\ r.kind = "found" =>
                  /\ <<r.unit, r.pack>> \in holding
                  /\ \A p \in holding : Before(<<r.unit, r.pack>>, p)
                  /\ Disjoint(test) => holding = {<<r.unit, r.pack>>}

\* Two packs hold the number and the one standing first was returned.
C21_Witness ==
    /\ LookedUp
    /\ pack_result.returned.kind = "found"
    /\ Cardinality(Holding(test, pack_result.question_number)) = 2

\* The number lies in no pack of an existing test: not-found.
C21_WitnessNone ==
    /\ LookedUp
    /\ pack_result.test_id \in TestIds
    /\ test # <<>>
    /\ pack_result.returned.kind = "not_found"

\* ------------------------------------------------------------------------
\* Properties of the progress report
\* ------------------------------------------------------------------------

\* A call of get_user_progress that found the submission.
Reported == GetUserProgress /\ progress'.kind = "progress"

AnsweredNumbers(s) == {a.question_number : a \in answers[s]}

\* The sum of (question_end - question_start + 1) over a set of positions.
RECURSIVE RangeSum(_, _)
RangeSum(t, positions) ==
    IF positions = {} THEN 0
    ELSE LET p == CHOOSE x \in positions : TRUE
         IN  (t[p[1]][p[2]].question_end - t[p[1]][p[2]].question_start + 1)
             + RangeSum(t, positions \ {p})

\* C22: get_user_progress reports total = the sum of (end - start + 1) over
\* the packs of the test, answered = the number of Answer rows = the number
\* of distinct question numbers answered, and percentage =
\* answered/total*100, 0 when total = 0.
C22_ProgressCounts ==
    [][Reported =>
         LET s == progress'.submission_id
             total == RangeSum(test, Positions(test))
         IN  /\ progress'.total_questions = total
             /\ progress'.answered_questions = Cardinality(answers[s])
             /\ progress'.answered_questions = Cardinality(AnsweredNumbers(s))
             /\ IF total = 0
                THEN progress'.progress_percentage.num = 0
                ELSE progress'.progress_percentage.num * total
                       = 100 * progress'.answered_questions
                         * progress'.progress_percentage.den]_vars

\* The question numbers of a section: those in the ranges of its packs.
SectionNumbers(t, u) ==
    UNION {t[u][k].question_start .. t[u][k].question_end : k \in DOMAIN t[u]}

\* Every question number of the section has an Answer of the submission.
FullyAnswered(t, u, s) == SectionNumbers(t, u) \subseteq AnsweredNumbers(s)

\* A call of get_user_progress of the Listening service that found the
\* submission.
ReportedSection == Reported /\ skill = "listening"

\* C23: when the section that holds the highest answered question number is
\* fully answered, get_current_section returns the next section in test
\* order; it returns none only when all sections are fully answered.
C23_NextSection ==
    [][ReportedSection =>
         LET s == progress'.submission_id
             current == progress'.current_section
         IN  /\ \A u \in DOMAIN test :
                   (/\ AnsweredNumbers(s) # {}
                    /\ max(AnsweredNumbers(s)) \in SectionNumbers(test, u)
                    /\ FullyAnswered(test, u, s)
                    /\ u < Len(test))
                   => current = Section(u + 1)
             /\ current = NoSection
                   => \A u \in DOMAIN test : FullyAnswered(test, u, s)]_vars

\* C24: get_current_section returns the first section, in test order, whose
\* question numbers are not all answered, also when a later section has
\* answers while an earlier one is incomplete; without answers it returns
\* the first section of the test.
C24_FirstIncompleteSection ==
    [][ReportedSection =>
         LET s == progress'.submission_id
             current == progress'.current_section
             incomplete == {u \in DOMAIN test : ~FullyAnswered(test, u, s)}
         IN  /\ incomplete # {}
                   => current = Section(CHOOSE u \in incomplete :
                                           \A other \in incomplete : u <= other)
             /\ (answers[s] = {} /\ test # <<>>) => current = Section(1)]_vars

\* C30: after any sequence of save_answer calls, get_user_progress reports
\* answered_questions <= total_questions and a progress_percentage between
\* 0 and 100.
C30_ProgressBounds ==
    [][Reported =>
         /\ progress'.answered_questions <= progress'.total_questions
         /\ 0 <= progress'.progress_percentage.num
         /\ progress'.progress_percentage.num
              <= 100 * progress'.progress_percentage.den]_vars

\* ------------------------------------------------------------------------
\* Properties of should_ask_followup
\* ------------------------------------------------------------------------

\* The responses of the session that answer the topic.
OfTopic == {i \in DOMAIN responses : responses[i].topic_id = topic.id}

\* C26: should_ask_followup is true exactly when the response is flagged as
\* needing a follow-up and the follow-ups already issued for the topic are
\* fewer than topic.max_followups; so it is never true for an unflagged
\* response, and the first response of a topic, flagged, gets a follow-up
\* when max_followups >= 1 (no follow-up of the topic can have been issued
\* before its first response).
C26_FirstFlaggedAsked ==
    [][ShouldAskFollowup =>
         LET i == ask_followup'.response
         IN  /\ ask_followup'.value => responses[i].ai_followup_needed
             /\ (/\ OfTopic = {i}
                 /\ responses[i].ai_followup_needed
                 /\ topic.max_followups >= 1)
                => ask_followup'.value]_vars

\* ------------------------------------------------------------------------
\* Properties of two grade requests
\* ------------------------------------------------------------------------

\* The rows as save_answer stored them: no flag set.
Unflagged(rows) == {[a EXCEPT !.is_correct = FALSE] : a \in rows}

\* What grading the submission alone gives: the flags and the Score computed
\* from its own answers and the test.
GradedAlone(s) == Graded(skill, test, Unflagged(answers[s]))

\* The request for submission s commits or fails in this step.
Commits(s) == grading[s].pc = "read" /\ grading'[s].pc = "idle"

ScoresOf(rows, s) == {sc \in rows : sc.submission_id = s}

\* C27: grading two submissions in any interleaving is independent: the
\* commit of the request for A leaves the Answers and Scores of every other
\* submission unchanged, creates no Score but A's, changes no flag but those
\* of A's Answers, and the Score A gets is the one of A graded alone.
C27_GradeIndependent ==
    [][\A s \in PairIds :
         Commits(s) =>
            /\ \A o \in PairIds \ {s} :
                  /\ answers'[o] = answers[o]
                  /\ ScoresOf(scores', o) = ScoresOf(scores, o)
            /\ scores \subseteq scores'
            /\ scores' \ scores \subseteq {ScoreRow(skill, s, GradedAlone(s))}
            /\ answers'[s] \in {answers[s], GradedAlone(s).answers}]_vars

\* The request for submission 2 has read its answers and not yet committed,
\* submission 1 has its Score meanwhile, and both hold a correct answer.
C27_Witness ==
    /\ grading[2].pc = "read"
    /\ \E sc \in ScoresOf(scores, 1) : sc.correct_answers > 0
    /\ \E a \in answers[1] : a.is_correct
    /\ ScoreRow(skill, 2, GradedAlone(2)).correct_answers > 0

\* ------------------------------------------------------------------------
\* Properties of the stored Score
\* ------------------------------------------------------------------------

\* The sum of a field over the entries of a breakdown.
RECURSIVE EntrySum(_, _, _)
EntrySum(breakdown, keys, field) ==
    IF keys = {} THEN 0
    ELSE LET key == CHOOSE x \in keys : TRUE
         IN  breakdown[key][field] + EntrySum(breakdown, keys \ {key}, field)

\* C28: the Score that ListeningService.grade_submission stores carries a
\* per-section breakdown with one entry for every section of the test, whose
\* correct counts and totals sum to the Score's correct count and total.
C28_SectionBreakdown ==
    skill = "listening" =>
        \A sc \in scores :
            /\ sc.section_scores.kind = "dict"
            /\ DOMAIN sc.section_scores.val = DOMAIN test
            /\ EntrySum(sc.section_scores.val, DOMAIN test, "correct")
                 = sc.correct_answers
            /\ EntrySum(sc.section_scores.val, DOMAIN test, "total")
                 = sc.total_questions

\* The answer check the service applies to a stored Answer row and the
\* reference the pack holds for the row's question number.
CheckAgainst(a, pack) ==
    ServiceCheck(skill, json_loads(a.user_answers),
                 DictGet(json_loads(pack.correct_answers),
                         ToString(a.question_number)),
                 pack.order_matters)

\* The question numbers that lie in the range of some pack of the test.
InRangeNumbers(t) ==
    UNION {t[p[1]][p[2]].question_start .. t[p[1]][p[2]].question_end :
              p \in Positions(t)}

\* C29: after grade_submission has stored the Score of a submission, every
\* Answer of the submission whose question number lies in a pack's range
\* has is_correct equal to the answer check against that pack's reference,
\* and the Score's correct count is the number of in-range question numbers
\* that have an Answer flagged correct, whatever answers were saved before.
C29_FlagsAndCount ==
    [][\A s \in SubmissionIds :
         (GradeSubmission /\ Ungraded(s) /\ ~Ungraded(s)') =>
            /\ \A a \in answers'[s] :
                  \A p \in Holding(test, a.question_number) :
                      a.is_correct = CheckAgainst(a, test[p[1]][p[2]])
            /\ \A sc \in scores' \ scores :
                  sc.correct_answers =
                      Cardinality({q \in InRangeNumbers(test) :
                                      \E a \in answers'[s] :
                                          a.question_number = q /\ a.is_correct})]_vars

====
